---- MODULE Spec2Model ----
(***************************************************************************)
(* A model of the retrieval core of stock_ai_system:                       *)
(*   - FaissVectorStore  (backend/app/embedding/vector_store.py)           *)
(*   - StockMarketRAG._chunk_text (backend/app/embedding/rag_pipeline.py)  *)
(*   - StockMarketRAG.generate_context (the same file)                     *)
(*   - StockMarketRAG.retrieve and index_market_data (the same file)       *)
(*   - OpenAIEmbeddingModel.embed_text                                     *)
(*                              (backend/app/embedding/text_embedding.py)  *)
(*   - StockMarketSearchEngine.summarize                                   *)
(*                              (backend/app/embedding/search_engine.py)   *)
(*                                                                         *)
(* Conventions.                                                            *)
(*   - A Python dict whose iteration order is observable (id_to_index) is  *)
(*     a sequence of <<key, value>> pairs in insertion order; a dict whose *)
(*     order is not observable (metadata) is a function.                   *)
(*   - Optional[...] is a set with at most one element (None is {}).       *)
(*   - Index positions are 0-based as in FAISS; position p of the flat     *)
(*     index is index[p + 1].                                              *)
(*   - uuid4 values are the integers 1, 2, ... in the order they are drawn.*)
(***************************************************************************)
EXTENDS Integers, Sequences, FiniteSets, TLC

VARIABLES
    index,          \* self.index: the vectors of the flat FAISS index, by position
    id_to_index,    \* self.id_to_index: ordered dict id -> position
    metadata,       \* self.metadata: dict id -> metadata dict
    metadata_file,  \* <store_dir>/metadata.json
    id_map_file,    \* <store_dir>/id_map.pickle
    next_uuid,      \* the next uuid4 value to be drawn
    tombstoned,     \* ids for which delete_vector returned True on this store object
    last,           \* the last completed call: its arguments and its outcome
    pc,             \* per thread: the statement a running call is at
    loc,            \* per thread: the local variables of the running call
    text,           \* _chunk_text: the text being chunked
    chunk_size,     \* self.chunk_size
    chunk_overlap,  \* self.chunk_overlap
    start,          \* _chunk_text: local start
    chunks,         \* _chunk_text: local chunks
    cpc             \* _chunk_text: the statement the call is at

storeVars == <<index, id_to_index, metadata, metadata_file, id_map_file>>
threadVars == <<pc, loc>>
chunkVars == <<text, chunk_size, chunk_overlap, start, chunks, cpc>>
vars == <<index, id_to_index, metadata, metadata_file, id_map_file, next_uuid,
          tombstoned, last, pc, loc, text, chunk_size, chunk_overlap, start,
          chunks, cpc>>

(***************************************************************************)
(* Bounds of the model.                                                    *)
(***************************************************************************)
MaxIds == 3
MaxBatch == 2
MaxTopK == 2

\* the store's dimension D (constructor argument)
dimension == 4

Ids == 1..MaxIds
\* the zero vector of a given dimension
Zero(d) == [i \in 1..d |-> 0]
\* the first unit vector of a given dimension; coordinates are written in
\* tenths, so that 1.0 is 10 and 0.9 is 9
Unit(d) == [i \in 1..d |-> IF i = 1 THEN 10 ELSE 0]
\* the vectors of the store's dimension that callers use
Vecs == {Zero(dimension), Unit(dimension)}
\* one vector of each neighbouring wrong dimension
WrongVecs == {Zero(dimension - 1), Zero(dimension + 1)}
AnyVecs == Vecs \cup WrongVecs

\* values of datetime.now().isoformat(); callers' own timestamps are "t0"
Times == {"t1"}
EmptyMeta == [k \in {} |-> "t0"]
\* the metadata dict a caller hands in with a vector: the pipeline derives
\* both from one text, so the model pairs them.  The zero vector comes with
\* the caller's own timestamp, as index_market_data supplies one.
MetaOf(v) ==
    IF v = Zero(Len(v)) THEN [symbol |-> "A", timestamp |-> "t0"] ELSE [symbol |-> "B"]
Metas == {MetaOf(v) : v \in Vecs}

SeqsUpTo(S, n) == UNION {[1..m -> S] : m \in 0..n}
\* the argument pairs (vectors, metadata) of add_vectors that are explored:
\* every well-formed batch, and every shape of malformed batch (any mix of
\* dimensions, any two lengths) with representative contents
WellFormed ==
    {<<vs, [i \in DOMAIN vs |-> MetaOf(vs[i])]>> : vs \in SeqsUpTo(Vecs, MaxBatch) \ {<<>>}}
Malformed ==
    {<<vs, [i \in DOMAIN vs |-> MetaOf(Zero(dimension))]>> :
        vs \in SeqsUpTo({Zero(dimension - 1), Zero(dimension), Zero(dimension + 1)}, MaxBatch)}
    \cup
    {<<[i \in 1..n |-> Zero(dimension)], [i \in 1..m |-> MetaOf(Zero(dimension))]>> :
        n \in 0..MaxBatch, m \in 0..MaxBatch}
Batches == WellFormed \cup Malformed
Min(a, b) == IF a < b THEN a ELSE b
Max(a, b) == IF a > b THEN a ELSE b
Range(s) == {s[i] : i \in DOMAIN s}

(***************************************************************************)
(* Ordered dict helpers (id_to_index).                                     *)
(***************************************************************************)
Keys(d) == {d[i][1] : i \in DOMAIN d}
Lookup(d, k) == (CHOOSE i \in DOMAIN d : d[i][1] = k)
Value(d, k) == d[Lookup(d, k)][2]
\* d[k] = v : an existing key keeps its place, a new key goes last
DictSet(d, k, v) ==
    IF k \in Keys(d)
    THEN [d EXCEPT ![Lookup(d, k)] = <<k, v>>]
    ELSE Append(d, <<k, v>>)
\* del d[k]
DictDel(d, k) == SelectSeq(d, LAMBDA e : e[1] # k)

\* m with key k set to v (dict item assignment on a function)
FnSet(m, k, v) == [x \in DOMAIN m \cup {k} |-> IF x = k THEN v ELSE m[x]]
FnDel(m, k) == [x \in DOMAIN m \ {k} |-> m[x]]

(***************************************************************************)
(* Persistence.  A file is absent, holds a complete dump ("ok"), or holds  *)
(* a partial dump ("torn") left by a write that raised after open(.., 'w') *)
(* truncated it.                                                           *)
(***************************************************************************)
Absent == [state |-> "absent", data |-> <<>>]
Torn == [state |-> "torn", data |-> <<>>]
FileOf(d) == [state |-> "ok", data |-> d]

\* "ok": the dump completes; "torn": the dump raises after open(.., 'w')
\* truncated the file.  The except clause swallows the failure.
SaveOutcomes == {"ok", "torn"}
\* a disk on which every write completes
Reliable == {"ok"}

SaveTo(file, d, outcome) ==
    IF outcome = "ok" THEN FileOf(d) ELSE Torn

_save_metadata(outcome) == SaveTo(metadata_file, metadata', outcome)
_save_id_map(outcome) == SaveTo(id_map_file, id_to_index', outcome)

\* a file that is missing, or that fails to deserialize, loads as {}
_load_metadata == IF metadata_file.state = "ok" THEN metadata_file.data ELSE EmptyMeta
_load_id_map == IF id_map_file.state = "ok" THEN id_map_file.data ELSE <<>>

(***************************************************************************)
(* The flat L2 index.                                                      *)
(***************************************************************************)
ntotal == Len(index)

RECURSIVE SumSq(_, _, _)
SumSq(a, b, i) ==
    IF i = 0 THEN 0 ELSE (a[i] - b[i]) * (a[i] - b[i]) + SumSq(a, b, i - 1)
\* squared L2 distance, as IndexFlatL2 reports it
L2(a, b) == SumSq(a, b, Len(a))

\* index.search(q, k): the labels of the k nearest positions, nearest first,
\* padded with -1 when the index holds fewer than k vectors.  The order of
\* positions at equal distance is the library's: every order is allowed.
\* the distance FAISS reports for a label
FaissDistance(q, p) == L2(index[p + 1], q)

\* the ways to list the m nearest of the positions in rest, nearest first
RECURSIVE Nearest(_, _, _)
Nearest(q, rest, m) ==
    IF m = 0 \/ rest = {} THEN {<<>>}
    ELSE LET best == {p \in rest : \A o \in rest : FaissDistance(q, p) <= FaissDistance(q, o)}
         IN  UNION {{<<p>> \o r : r \in Nearest(q, rest \ {p}, m - 1)} : p \in best}

FaissSearch(q, k) ==
    {[i \in 1..k |-> IF i <= Len(r) THEN r[i] ELSE -1] :
        r \in Nearest(q, 0..(ntotal - 1), k)}

(***************************************************************************)
(* FaissVectorStore: the public operations as functions of the state.      *)
(***************************************************************************)
\* the record of a call: the operation, the kind of argument it was given,
\* the batch of an add_vectors call that returned, the top_k of a search,
\* the exception raised ("" if none) and the value returned
NoCall == [op |-> "none", shape |-> "", batch |-> <<>>, top_k |-> 0,
           raised |-> "", ret |-> <<>>]
\* the record of a call of the pipeline or of the search engine
NoEngineCall == [op |-> "none", args |-> <<>>, raised |-> "", ret |-> <<>>]

\* what kind of id a call of delete_vector or get_vector was given
IdShape(vector_id) ==
    IF vector_id \in Keys(id_to_index) THEN "mapped"
    ELSE IF vector_id \in tombstoned THEN "deleted"
    ELSE "unknown"

\* what kind of batch a call of add_vectors was given
BatchShape(vectors, metas) ==
    LET wrong == {i \in DOMAIN vectors : Len(vectors[i]) # dimension}
    IN  IF Len(vectors) # Len(metas) THEN "lengths differ"
        ELSE IF vectors = <<>> THEN "empty"
        ELSE IF wrong = {} THEN "well-formed"
        ELSE IF wrong = DOMAIN vectors THEN "all of a wrong dimension"
        ELSE "some of a wrong dimension"

\* add_vectors comparing the two lengths with > instead of !=
AddRaises_ShortOnly(vectors, metas) ==
    IF Len(vectors) > Len(metas) THEN "ValueError"
    ELSE IF vectors = <<>> THEN "ValueError"
    ELSE IF \E i, j \in DOMAIN vectors : Len(vectors[i]) # Len(vectors[j]) THEN "ValueError"
    ELSE IF Len(vectors[1]) # dimension THEN "AssertionError"
    ELSE ""

\* add_vectors without the checks on the vectors' dimensions
AddRaises_LengthOnly(vectors, metas) ==
    IF Len(vectors) # Len(metas) \/ vectors = <<>> THEN "ValueError" ELSE ""

\* the exception add_vectors raises before it changes anything, "" if none:
\* the explicit length check, np.vstack on an empty or ragged list, and the
\* FAISS wrapper's assertion that the rows have the index's dimension
AddRaises(vectors, metas) ==
    IF Len(vectors) # Len(metas) THEN "ValueError"
    ELSE IF vectors = <<>> THEN "ValueError"
    ELSE IF \E i, j \in DOMAIN vectors : Len(vectors[i]) # Len(vectors[j]) THEN "ValueError"
    ELSE IF Len(vectors[1]) # dimension THEN "AssertionError"
    ELSE ""

\* add_vectors numbering the ids of every batch from 1
NewIds_Reused(first, n) == [i \in 1..n |-> i]

\* vector_ids = [str(uuid.uuid4()) for _ in range(len(vectors))]
NewIds(first, n) == [i \in 1..n |-> first + i - 1]

\* the timestamped copy of a caller's metadata dict
Stamped(meta, now) == FnSet(meta, "timestamp", now)

\* the loop of add_vectors over enumerate(vector_ids), entries 1..n done
RECURSIVE AddIdMap(_, _, _, _)
AddIdMap(d, vector_ids, start_idx, n) ==
    IF n = 0 THEN d
    ELSE DictSet(AddIdMap(d, vector_ids, start_idx, n - 1),
                 vector_ids[n], start_idx + n - 1)

RECURSIVE AddMetadata(_, _, _, _, _)
AddMetadata(m, vector_ids, metas, now, n) ==
    IF n = 0 THEN m
    ELSE FnSet(AddMetadata(m, vector_ids, metas, now, n - 1),
               vector_ids[n], Stamped(metas[n], now))

\* delete_vector without its test for an unknown id
Known_Always(vector_id) == TRUE

\* delete_vector's test for an unknown id
Known(vector_id) == vector_id \in Keys(id_to_index)

\* delete_vector taking the vector at position p out of the index
DelIndex_Removed(idx, p) ==
    IF p + 1 \notin DOMAIN idx THEN idx
    ELSE [i \in 1..(Len(idx) - 1) |-> IF i <= p THEN idx[i] ELSE idx[i + 1]]

\* what delete_vector does to the FAISS index of the entry at position p:
\* nothing, the vector stays where it is
DelIndex(idx, p) == idx

\* del self.metadata[vector_id], guarded
DelMetadata(m, vector_id) == IF vector_id \in DOMAIN m THEN FnDel(m, vector_id) ELSE m
\* delete_vector forgetting the id map
DelIdMap_Kept(d, vector_id) == d

\* del self.id_to_index[vector_id], guarded
DelIdMap(d, vector_id) == IF vector_id \in Keys(d) THEN DictDel(d, vector_id) ELSE d

\* self.metadata.get(vector_id, {})
MetadataGet(vector_id) ==
    IF vector_id \in DOMAIN metadata THEN metadata[vector_id] ELSE EmptyMeta

\* get_vector(vector_id): None, or the dict it returns (id and metadata only)
get_vector(vector_id) ==
    IF vector_id \notin Keys(id_to_index) THEN {}
    ELSE {[id |-> vector_id, metadata |-> MetadataGet(vector_id)]}

\* index_to_id = {idx: id for id, idx in d.items()}, looked up with .get(p):
\* for a position held by several ids the last one in dict order wins
IndexToId(d, p) ==
    LET hits == {i \in DOMAIN d : d[i][2] = p}
    IN  IF hits = {} THEN {}
        ELSE {d[CHOOSE i \in hits : \A j \in hits : j <= i][1]}

\* similarity = 1.0 / (1.0 + distance), kept as a fraction <<numerator,
\* denominator>>; squared distances of coordinates in tenths are in hundredths
Score(distance) == <<100, 100 + distance>>

\* the two continue statements of search's loop
Skipped(d, p) == (p < 0 \/ p >= ntotal) \/ IndexToId(d, p) = {}

\* the result dict search appends for label p
Result(d, q, p) ==
    LET vector_id == CHOOSE x \in IndexToId(d, p) : TRUE
    IN  [id |-> vector_id,
         score |-> Score(FaissDistance(q, p)),
         metadata |-> MetadataGet(vector_id)]

\* search appending the results in the reverse order of the labels
SearchResults_Reversed(q, labels) ==
    LET kept == SelectSeq(labels, LAMBDA p : ~Skipped(id_to_index, p))
    IN  [i \in DOMAIN kept |-> Result(id_to_index, q, kept[Len(kept) + 1 - i])]

\* the result list search builds from the labels FAISS returned
SearchResults(q, labels) ==
    LET kept == SelectSeq(labels, LAMBDA p : ~Skipped(id_to_index, p))
    IN  [i \in DOMAIN kept |-> Result(id_to_index, q, kept[i])]

\* every result list search(q, top_k) can return in the current state
search(q, top_k) == {SearchResults(q, labels) : labels \in FaissSearch(q, top_k)}

(***************************************************************************)
(* Sequential use of one store directory: calls run to completion, and the *)
(* process may be restarted between calls.  The parameter io of a mutating *)
(* call is the set of outcomes its two file writes can have.               *)
(***************************************************************************)
AddVectors(io) ==
    /\ \E batch \in Batches :
        LET vectors == batch[1]
            metas == batch[2]
            err == AddRaises(vectors, metas)
            call == [NoCall EXCEPT !.op = "add", !.shape = BatchShape(vectors, metas)]
        IN  IF err # ""
            THEN /\ last' = [call EXCEPT !.raised = err]
                 /\ UNCHANGED <<storeVars, next_uuid, tombstoned>>
            ELSE \E now \in Times, o1, o2 \in io :
                 LET n == Len(vectors)
                     vector_ids == NewIds(next_uuid, n)
                     start_idx == ntotal
                 IN  /\ next_uuid + n - 1 <= MaxIds
                     /\ next_uuid' = next_uuid + n
                     /\ index' = index \o vectors
                     /\ id_to_index' = AddIdMap(id_to_index, vector_ids, start_idx, n)
                     /\ metadata' = AddMetadata(metadata, vector_ids, metas, now, n)
                     /\ metadata_file' = _save_metadata(o1)
                     /\ id_map_file' = _save_id_map(o2)
                     /\ last' = [call EXCEPT !.batch = batch, !.ret = vector_ids]
                     /\ UNCHANGED tombstoned
    /\ UNCHANGED <<threadVars, chunkVars>>

DeleteVector(io) ==
    /\ \E vector_id \in Ids :
        LET call == [NoCall EXCEPT !.op = "delete", !.shape = IdShape(vector_id)]
        IN  IF ~Known(vector_id)
            THEN /\ last' = [call EXCEPT !.ret = FALSE]
                 /\ UNCHANGED <<storeVars, tombstoned>>
            ELSE \E o1, o2 \in io :
                 /\ metadata' = DelMetadata(metadata, vector_id)
                 /\ id_to_index' = DelIdMap(id_to_index, vector_id)
                 /\ metadata_file' = _save_metadata(o1)
                 /\ id_map_file' = _save_id_map(o2)
                 /\ tombstoned' = tombstoned \cup {vector_id}
                 /\ last' = [call EXCEPT !.ret = TRUE]
                 /\ index' = DelIndex(index, Value(id_to_index, vector_id))
    /\ UNCHANGED <<next_uuid, threadVars, chunkVars>>

GetVector ==
    /\ \E vector_id \in Ids :
        last' = [NoCall EXCEPT !.op = "get", !.shape = IdShape(vector_id),
                               !.ret = get_vector(vector_id)]
    /\ UNCHANGED <<storeVars, next_uuid, tombstoned, threadVars, chunkVars>>

Search ==
    /\ \E q \in AnyVecs, top_k \in 1..MaxTopK :
        LET call == [NoCall EXCEPT !.op = "search", !.top_k = top_k]
        IN  IF Len(q) # dimension
            THEN last' = [call EXCEPT !.shape = "wrong dimension",
                                      !.raised = "AssertionError"]
            ELSE \E results \in search(q, top_k) : last' = [call EXCEPT !.ret = results]
    /\ UNCHANGED <<storeVars, next_uuid, tombstoned, threadVars, chunkVars>>

\* FaissVectorStore.__init__ on the same store_dir: a new, empty index, and
\* both dicts read back from their files
Restart ==
    /\ index' = <<>>
    /\ metadata' = _load_metadata
    /\ id_to_index' = _load_id_map
    /\ tombstoned' = {}
    /\ last' = [NoCall EXCEPT !.op = "init"]
    /\ UNCHANGED <<metadata_file, id_map_file, next_uuid, threadVars, chunkVars>>

NoThreads == <<>>
NoChunking ==
    /\ text = [len |-> 0, periods |-> {}]
    /\ chunk_size = 0
    /\ chunk_overlap = 0
    /\ start = 0
    /\ chunks = <<>>
    /\ cpc = "idle"

\* a store constructed on an empty store_dir
InitStore ==
    /\ index = <<>>
    /\ id_to_index = <<>>
    /\ metadata = EmptyMeta
    /\ metadata_file = Absent
    /\ id_map_file = Absent
    /\ next_uuid = 1
    /\ tombstoned = {}
    /\ last = [NoCall EXCEPT !.op = "init"]

Init ==
    /\ InitStore
    /\ pc = NoThreads
    /\ loc = NoThreads
    /\ NoChunking

Next ==
    \/ AddVectors(Reliable)
    \/ DeleteVector(Reliable)
    \/ GetVector
    \/ Search
    \/ Restart

Spec == Init /\ [][Next]_vars

\* the calls that change the store, and restarts: search and get_vector
\* change nothing that add_vectors, delete_vector or __init__ read
NextWriters ==
    \/ AddVectors(Reliable)
    \/ DeleteVector(Reliable)
    \/ Restart

Writers == Init /\ [][NextWriters]_vars

\* one store object, from its construction on an empty directory
NextOneStore ==
    \/ AddVectors(Reliable)
    \/ DeleteVector(Reliable)
    \/ GetVector
    \/ Search

OneStore == Init /\ [][NextOneStore]_vars

(***************************************************************************)
(* One store object that starts empty or holding the three entries         *)
(* A = [1, 0, 0, 0], B = [0, 1, 0, 0] and C = [0.9, 0.1, 0, 0].            *)
(***************************************************************************)
EntryA == <<10, 0, 0, 0>>
EntryB == <<0, 10, 0, 0>>
EntryC == <<9, 1, 0, 0>>
ThreeEntries == <<EntryA, EntryB, EntryC>>

\* the store after add_vectors(vectors, metas) on an empty store_dir
Loaded(vectors, metas) ==
    LET n == Len(vectors)
        vector_ids == NewIds(1, n)
    IN  /\ index = vectors
        /\ id_to_index = AddIdMap(<<>>, vector_ids, 0, n)
        /\ metadata \in {AddMetadata(EmptyMeta, vector_ids, metas, now, n) : now \in Times}
        /\ metadata_file = FileOf(metadata)
        /\ id_map_file = FileOf(id_to_index)
        /\ next_uuid = n + 1
        /\ tombstoned = {}
        /\ last = [NoCall EXCEPT !.op = "add", !.shape = "well-formed", !.ret = vector_ids]

InitRanking ==
    /\ InitStore \/ Loaded(ThreeEntries, [i \in 1..3 |-> MetaOf(ThreeEntries[i])])
    /\ pc = NoThreads
    /\ loc = NoThreads
    /\ NoChunking

Ranking == InitRanking /\ [][NextOneStore]_vars

(***************************************************************************)
(* One store directory on a disk whose writes can fail, used by a process  *)
(* that can be killed while it writes.  A write that does not complete,    *)
(* because the dump raised or because the process died in it, leaves the   *)
(* file torn: open(.., 'w') has truncated it and the dump is partial.      *)
(***************************************************************************)
\* what memory holds when add_vectors or delete_vector reaches its two
\* writes: <<self.metadata, self.id_to_index, number of uuids drawn>>
Mutations ==
    {<<AddMetadata(metadata, NewIds(next_uuid, Len(batch[1])), batch[2], now, Len(batch[1])),
       AddIdMap(id_to_index, NewIds(next_uuid, Len(batch[1])), ntotal, Len(batch[1])),
       Len(batch[1])>> :
        batch \in {b \in WellFormed : next_uuid + Len(b[1]) - 1 <= MaxIds}, now \in Times}
    \cup
    {<<DelMetadata(metadata, vector_id), DelIdMap(id_to_index, vector_id), 0>> :
        vector_id \in {id \in Ids : Known(id)}}

\* where the process can be killed once a call has reached its two writes
CrashPoints == {"in _save_metadata", "between the writes", "in _save_id_map"}

\* the process is killed inside _save_metadata (the first write), between
\* the two writes or inside _save_id_map (the second) of an add_vectors or
\* delete_vector call, and a new process constructs the store on the same
\* store_dir
Crash ==
    /\ \E mut \in Mutations, at \in CrashPoints :
        /\ metadata_file' = IF at = "in _save_metadata" THEN Torn ELSE FileOf(mut[1])
        /\ id_map_file' = IF at = "in _save_id_map" THEN Torn ELSE id_map_file
        /\ next_uuid' = next_uuid + mut[3]
    /\ index' = <<>>
    /\ metadata' = IF metadata_file'.state = "ok" THEN metadata_file'.data ELSE EmptyMeta
    /\ id_to_index' = IF id_map_file'.state = "ok" THEN id_map_file'.data ELSE <<>>
    /\ tombstoned' = {}
    /\ last' = [NoCall EXCEPT !.op = "init", !.shape = "after a crash"]
    /\ UNCHANGED <<threadVars, chunkVars>>

NextFaulty ==
    \/ AddVectors(SaveOutcomes)
    \/ DeleteVector(SaveOutcomes)
    \/ GetVector
    \/ Search
    \/ Restart
    \/ Crash

Faulty == Init /\ [][NextFaulty]_vars

(***************************************************************************)
(* Concurrent use of one store object.  The class takes no lock, so the    *)
(* threads of a process interleave between the statements of its methods.  *)
(* One step is one statement that reads or writes the shared object; a     *)
(* statement is taken as a whole (a dict comprehension, a guarded del and  *)
(* a dump are one step each).  Every file write completes.  A thread that  *)
(* has returned stays at "return" with its locals and its return value.    *)
(***************************************************************************)
NumThreads == 2
Threads == 1..NumThreads

\* the local variables of a call
NoLocals == [op |-> "none", batch |-> <<>>, vector_ids |-> <<>>, start_idx |-> 0,
             i |-> 0, vector_id |-> 0, query |-> <<>>, top_k |-> 0, labels |-> <<>>,
             index_to_id |-> <<>>, results |-> <<>>, ret |-> <<>>]

Goto(t, label, locals) ==
    /\ pc' = [pc EXCEPT ![t] = label]
    /\ loc' = [loc EXCEPT ![t] = locals]

\* a thread enters one of the four public methods
Call(t) ==
    /\ pc[t] = "idle"
    /\ \/ \E batch \in WellFormed :
            /\ next_uuid + Len(batch[1]) - 1 <= MaxIds
            /\ next_uuid' = next_uuid + Len(batch[1])
            /\ Goto(t, "add_ntotal",
                    [NoLocals EXCEPT !.op = "add", !.batch = batch,
                                     !.vector_ids = NewIds(next_uuid, Len(batch[1]))])
       \/ \E vector_id \in Ids :
            /\ Goto(t, "delete_known", [NoLocals EXCEPT !.op = "delete", !.vector_id = vector_id])
            /\ UNCHANGED next_uuid
       \/ \E vector_id \in Ids :
            /\ Goto(t, "get_known", [NoLocals EXCEPT !.op = "get", !.vector_id = vector_id])
            /\ UNCHANGED next_uuid
       \/ \E q \in Vecs, top_k \in 1..MaxTopK :
            /\ Goto(t, "search_index", [NoLocals EXCEPT !.op = "search", !.query = q, !.top_k = top_k])
            /\ UNCHANGED next_uuid
    /\ UNCHANGED <<storeVars, tombstoned, last, chunkVars>>

\* start_idx = self.index.ntotal
AddNtotal(t) ==
    /\ pc[t] = "add_ntotal"
    /\ Goto(t, "add_index", [loc[t] EXCEPT !.start_idx = ntotal])
    /\ UNCHANGED <<storeVars, next_uuid, tombstoned, last, chunkVars>>

\* self.index.add(vectors_array)
AddIndex(t) ==
    /\ pc[t] = "add_index"
    /\ index' = index \o loc[t].batch[1]
    /\ Goto(t, "add_id_map", [loc[t] EXCEPT !.i = 1])
    /\ UNCHANGED <<id_to_index, metadata, metadata_file, id_map_file,
                   next_uuid, tombstoned, last, chunkVars>>

\* self.id_to_index[vector_id] = idx
AddIdMapEntry(t) ==
    /\ pc[t] = "add_id_map"
    /\ id_to_index' = DictSet(id_to_index, loc[t].vector_ids[loc[t].i],
                              loc[t].start_idx + loc[t].i - 1)
    /\ Goto(t, "add_metadata", loc[t])
    /\ UNCHANGED <<index, metadata, metadata_file, id_map_file,
                   next_uuid, tombstoned, last, chunkVars>>

\* self.metadata[vector_id] = meta, and the loop's next round
AddMetadataEntry(t) ==
    /\ pc[t] = "add_metadata"
    /\ \E now \in Times :
         metadata' = FnSet(metadata, loc[t].vector_ids[loc[t].i],
                           Stamped(loc[t].batch[2][loc[t].i], now))
    /\ IF loc[t].i < Len(loc[t].vector_ids)
       THEN Goto(t, "add_id_map", [loc[t] EXCEPT !.i = @ + 1])
       ELSE Goto(t, "add_save_metadata", loc[t])
    /\ UNCHANGED <<index, id_to_index, metadata_file, id_map_file,
                   next_uuid, tombstoned, last, chunkVars>>

\* self._save_metadata() of add_vectors
AddSaveMetadata(t) ==
    /\ pc[t] = "add_save_metadata"
    /\ UNCHANGED metadata
    /\ \E o \in Reliable : metadata_file' = _save_metadata(o)
    /\ Goto(t, "add_save_id_map", loc[t])
    /\ UNCHANGED <<index, id_to_index, id_map_file, next_uuid, tombstoned, last, chunkVars>>

\* self._save_id_map() of add_vectors, and return vector_ids
AddSaveIdMap(t) ==
    /\ pc[t] = "add_save_id_map"
    /\ UNCHANGED id_to_index
    /\ \E o \in Reliable : id_map_file' = _save_id_map(o)
    /\ Goto(t, "return", [loc[t] EXCEPT !.ret = loc[t].vector_ids])
    /\ UNCHANGED <<index, metadata, metadata_file, next_uuid, tombstoned, last, chunkVars>>

\* if vector_id not in self.id_to_index: return False
DeleteKnown(t) ==
    /\ pc[t] = "delete_known"
    /\ IF Known(loc[t].vector_id)
       THEN Goto(t, "delete_metadata", loc[t])
       ELSE Goto(t, "return", [loc[t] EXCEPT !.ret = FALSE])
    /\ UNCHANGED <<storeVars, next_uuid, tombstoned, last, chunkVars>>

\* if vector_id in self.metadata: del self.metadata[vector_id]
DeleteMetadata(t) ==
    /\ pc[t] = "delete_metadata"
    /\ metadata' = DelMetadata(metadata, loc[t].vector_id)
    /\ Goto(t, "delete_id_map", loc[t])
    /\ UNCHANGED <<index, id_to_index, metadata_file, id_map_file,
                   next_uuid, tombstoned, last, chunkVars>>

\* if vector_id in self.id_to_index: del self.id_to_index[vector_id]
DeleteIdMap(t) ==
    /\ pc[t] = "delete_id_map"
    /\ id_to_index' = DelIdMap(id_to_index, loc[t].vector_id)
    /\ Goto(t, "delete_save_metadata", loc[t])
    /\ UNCHANGED <<index, metadata, metadata_file, id_map_file,
                   next_uuid, tombstoned, last, chunkVars>>

\* self._save_metadata() of delete_vector
DeleteSaveMetadata(t) ==
    /\ pc[t] = "delete_save_metadata"
    /\ UNCHANGED metadata
    /\ \E o \in Reliable : metadata_file' = _save_metadata(o)
    /\ Goto(t, "delete_save_id_map", loc[t])
    /\ UNCHANGED <<index, id_to_index, id_map_file, next_uuid, tombstoned, last, chunkVars>>

\* self._save_id_map() of delete_vector, and return True
DeleteSaveIdMap(t) ==
    /\ pc[t] = "delete_save_id_map"
    /\ UNCHANGED id_to_index
    /\ \E o \in Reliable : id_map_file' = _save_id_map(o)
    /\ tombstoned' = tombstoned \cup {loc[t].vector_id}
    /\ Goto(t, "return", [loc[t] EXCEPT !.ret = TRUE])
    /\ UNCHANGED <<index, metadata, metadata_file, next_uuid, last, chunkVars>>

\* if vector_id not in self.id_to_index: return None
GetKnown(t) ==
    /\ pc[t] = "get_known"
    /\ IF loc[t].vector_id \in Keys(id_to_index)
       THEN Goto(t, "get_idx", loc[t])
       ELSE Goto(t, "return", [loc[t] EXCEPT !.ret = {}])
    /\ UNCHANGED <<storeVars, next_uuid, tombstoned, last, chunkVars>>

\* idx = self.id_to_index[vector_id]; a KeyError is caught and None returned
GetIdx(t) ==
    /\ pc[t] = "get_idx"
    /\ IF loc[t].vector_id \in Keys(id_to_index)
       THEN Goto(t, "get_metadata", loc[t])
       ELSE Goto(t, "return", [loc[t] EXCEPT !.ret = {}])
    /\ UNCHANGED <<storeVars, next_uuid, tombstoned, last, chunkVars>>

\* metadata = self.metadata.get(vector_id, {}), and return the dict
GetMetadata(t) ==
    /\ pc[t] = "get_metadata"
    /\ Goto(t, "return",
            [loc[t] EXCEPT !.ret = {[id |-> loc[t].vector_id,
                                     metadata |-> MetadataGet(loc[t].vector_id)]}])
    /\ UNCHANGED <<storeVars, next_uuid, tombstoned, last, chunkVars>>

\* distances, indices = self.index.search(query_vector, top_k)
SearchIndex(t) ==
    /\ pc[t] = "search_index"
    /\ \E labels \in FaissSearch(loc[t].query, loc[t].top_k) :
         Goto(t, "search_invert", [loc[t] EXCEPT !.labels = labels])
    /\ UNCHANGED <<storeVars, next_uuid, tombstoned, last, chunkVars>>

\* index_to_id = {idx: id for id, idx in self.id_to_index.items()}
SearchInvert(t) ==
    /\ pc[t] = "search_invert"
    /\ Goto(t, "search_loop", [loc[t] EXCEPT !.index_to_id = id_to_index, !.i = 1])
    /\ UNCHANGED <<storeVars, next_uuid, tombstoned, last, chunkVars>>

\* one round of search's loop over indices[0]; return results after the last
SearchLoop(t) ==
    /\ pc[t] = "search_loop"
    /\ LET p == loc[t].labels[loc[t].i]
           results == IF Skipped(loc[t].index_to_id, p) THEN loc[t].results
                      ELSE Append(loc[t].results,
                                  Result(loc[t].index_to_id, loc[t].query, p))
       IN  IF loc[t].i < Len(loc[t].labels)
           THEN Goto(t, "search_loop", [loc[t] EXCEPT !.results = results, !.i = @ + 1])
           ELSE Goto(t, "return", [loc[t] EXCEPT !.results = results, !.ret = results])
    /\ UNCHANGED <<storeVars, next_uuid, tombstoned, last, chunkVars>>

\* the store after add_vectors([v], [MetaOf(v)]) on an empty store_dir
Preloaded(v) ==
    /\ index = <<v>>
    /\ id_to_index = <<<<1, 0>>>>
    /\ metadata = [id \in {1} |-> Stamped(MetaOf(v), "t1")]
    /\ metadata_file = FileOf(metadata)
    /\ id_map_file = FileOf(id_to_index)
    /\ next_uuid = 2
    /\ tombstoned = {}
    /\ last = [NoCall EXCEPT !.op = "init"]

\* each thread makes one call, on a store that is empty or holds one entry
InitConcurrent ==
    /\ InitStore \/ Preloaded(Unit(dimension))
    /\ pc = [t \in Threads |-> "idle"]
    /\ loc = [t \in Threads |-> NoLocals]
    /\ NoChunking

NextConcurrent ==
    \E t \in Threads :
        \/ Call(t)
        \/ AddNtotal(t)
        \/ AddIndex(t)
        \/ AddIdMapEntry(t)
        \/ AddMetadataEntry(t)
        \/ AddSaveMetadata(t)
        \/ AddSaveIdMap(t)
        \/ DeleteKnown(t)
        \/ DeleteMetadata(t)
        \/ DeleteIdMap(t)
        \/ DeleteSaveMetadata(t)
        \/ DeleteSaveIdMap(t)
        \/ GetKnown(t)
        \/ GetIdx(t)
        \/ GetMetadata(t)
        \/ SearchIndex(t)
        \/ SearchInvert(t)
        \/ SearchLoop(t)

Concurrent == InitConcurrent /\ [][NextConcurrent]_vars

(***************************************************************************)
(* StockMarketRAG._chunk_text.  A text is its length and the offsets of    *)
(* its '.' characters; a chunk is the pair <<lo, hi>> of the offsets its   *)
(* slice text[lo:hi] covers.  The list of a call that never returns grows  *)
(* without bound: the model keeps its first MaxChunks chunks.              *)
(***************************************************************************)
MaxTextLen == 3
MaxChunkSize == 3
MaxChunks == 4
\* how far below 0 start is followed
MaxBack == 4

\* the scenario of the specification: 2500 characters, windows of 1000,
\* overlap 100, with and without sentence ends near the window edges
ScenarioLen == 2500
ScenarioSize == 1000
ScenarioOverlap == 100
ScenarioPeriods == SUBSET {949, 1799}

Texts ==
    {[len |-> n, periods |-> ps] : n \in 0..MaxTextLen, ps \in SUBSET (0..(MaxTextLen - 1))}
ChunkInputs ==
    {<<tx, size, overlap>> \in Texts \X (1..MaxChunkSize) \X (0..MaxChunkSize) :
        tx.periods \subseteq 0..(tx.len - 1)}
    \cup {<<[len |-> ScenarioLen, periods |-> ps], ScenarioSize, ScenarioOverlap>> :
            ps \in ScenarioPeriods}

\* an offset of a slice or of rfind, as Python clamps it
Clamp(i, n) == IF i < 0 THEN Max(i + n, 0) ELSE Min(i, n)

\* text[a:b]
Slice(tx, a, b) ==
    LET lo == Clamp(a, tx.len)
        hi == Clamp(b, tx.len)
    IN  IF lo < hi THEN <<lo, hi>> ELSE <<0, 0>>

\* text.rfind('.', a, b)
RFind(tx, a, b) ==
    LET found == {p \in tx.periods : Clamp(a, tx.len) <= p /\ p < Clamp(b, tx.len)}
    IN  IF found = {} THEN -1 ELSE CHOOSE p \in found : \A o \in found : o <= p

\* the end of the window that starts at start
WindowEnd(tx, size, from) ==
    LET end == Min(from + size, tx.len)
        last_period == RFind(tx, from, end)
    IN  IF end < tx.len /\ last_period > from + size \div 2
        THEN last_period + 1
        ELSE end

ChunkLen(c) == c[2] - c[1]

\* if not text: return []
ChunkCall ==
    /\ cpc = "call"
    /\ cpc' = IF text.len = 0 THEN "done" ELSE "while"
    /\ UNCHANGED <<text, chunk_size, chunk_overlap, start, chunks>>
    /\ UNCHANGED <<storeVars, next_uuid, tombstoned, last, threadVars>>

\* while start < len(text): ... return chunks
ChunkWhile ==
    /\ cpc = "while"
    /\ cpc' = IF start < text.len THEN "body" ELSE "done"
    /\ UNCHANGED <<text, chunk_size, chunk_overlap, start, chunks>>
    /\ UNCHANGED <<storeVars, next_uuid, tombstoned, last, threadVars>>

\* the body of the loop
ChunkBody ==
    /\ cpc = "body"
    /\ LET end == WindowEnd(text, chunk_size, start)
       IN  /\ end - chunk_overlap >= -MaxBack
           /\ chunks' = IF Len(chunks) < MaxChunks
                        THEN Append(chunks, Slice(text, start, end))
                        ELSE chunks
           /\ start' = end - chunk_overlap
    /\ cpc' = "while"
    /\ UNCHANGED <<text, chunk_size, chunk_overlap>>
    /\ UNCHANGED <<storeVars, next_uuid, tombstoned, last, threadVars>>

InitChunker ==
    /\ InitStore
    /\ pc = NoThreads
    /\ loc = NoThreads
    /\ \E input \in ChunkInputs :
        /\ text = input[1]
        /\ chunk_size = input[2]
        /\ chunk_overlap = input[3]
    /\ start = 0
    /\ chunks = <<>>
    /\ cpc = "call"

NextChunker ==
    \/ ChunkCall
    \/ ChunkWhile
    \/ ChunkBody

Chunker == InitChunker /\ [][NextChunker]_vars

\* a call that is running takes its next step
FairChunker == Chunker /\ WF_vars(NextChunker)

(***************************************************************************)
(* StockMarketRAG.generate_context and StockMarketSearchEngine.summarize   *)
(* (backend/app/embedding/search_engine.py).  A string built with an       *)
(* f-string or a join is the tuple of its parts.                           *)
(***************************************************************************)
MaxResults == 2

\* the result dicts a retrieval hands on: a score and a metadata dict that
\* holds a text or none
ContextResults ==
    {[score |-> Score(dist), metadata |-> m] :
        dist \in {0, 2}, m \in {[text |-> "x"], [symbol |-> "A"]}}
ContextInputs == SeqsUpTo(ContextResults, MaxResults)

\* metadata.get("text", "")
MetadataText(m) == IF "text" \in DOMAIN m THEN m.text ELSE ""

\* f"{score:.4f}": the score in ten-thousandths, rounded
Format4f(score) == (2 * 10000 * score[1] + score[2]) \div (2 * score[2])

\* the entries of context_parts after the first n results: for a result
\* with a text, its header (document number and formatted score) and text
RECURSIVE ContextParts(_, _)
ContextParts(search_results, n) ==
    IF n = 0 THEN <<>>
    ELSE LET result == search_results[n]
             t == MetadataText(result.metadata)
             before == ContextParts(search_results, n - 1)
         IN  IF t # ""
             THEN Append(before, [doc |-> n, score |-> Format4f(result.score), text |-> t])
             ELSE before

generate_context(search_results) == ContextParts(search_results, Len(search_results))

\* the ai_model of an engine: one of the four providers that
\* AIModelFactory.create_ai_model creates, or an AIModelInterface that does
\* not override generate_response
AIModels == {"openai", "mistral", "gemini", "local", "AIModelInterface"}
\* how the request of a provider ends: "ok", or the reason of its failure
Reasons == {"timeout", "HTTP 500"}
RequestOutcomes == {"ok"} \cup Reasons

\* the fixed part of the message a provider returns from its except clause
\* ("an error occurred while generating the response: "), in English
ErrorPrefix == "an error occurred while generating the response"

\* generate_response.  AIModelInterface's own raises NotImplementedError;
\* that of the four providers returns the text of the reply, or, when
\* anything in the request raised, the message that names the exception
generate_response(ai_model, outcome) ==
    IF ai_model = "AIModelInterface"
    THEN [raised |-> "NotImplementedError", response |-> <<>>]
    ELSE IF outcome = "ok"
    THEN [raised |-> "", response |-> <<"answer">>]
    ELSE [raised |-> "", response |-> <<ErrorPrefix, outcome>>]

\* summarize: what it raises and what it returns
summarize(ai_model, retrieval, search_results, outcome, now) ==
    LET context == generate_context(search_results)
        generated == generate_response(ai_model, outcome)
    IN  IF retrieval # "ok" THEN [raised |-> retrieval, ret |-> <<>>]
        ELSE IF generated.raised # "" THEN [raised |-> generated.raised, ret |-> <<>>]
        ELSE [raised |-> "",
              ret |-> [context |-> context, response |-> generated.response,
                       timestamp |-> now]]

GenerateContext ==
    /\ \E search_results \in ContextInputs :
        last' = [NoEngineCall EXCEPT !.op = "generate_context",
                                     !.args = search_results,
                                     !.ret = generate_context(search_results)]
    /\ UNCHANGED <<storeVars, next_uuid, tombstoned, threadVars, chunkVars>>

\* retrieval either returns result dicts or raises (the embedding model or
\* the store's search failed)
Summarize ==
    /\ \E ai_model \in AIModels, retrieval \in {"ok", "raises"},
          search_results \in ContextInputs, outcome \in RequestOutcomes, now \in Times :
        LET call == summarize(ai_model, retrieval, search_results, outcome, now)
        IN  /\ retrieval # "ok" => search_results = <<>>
            /\ last' = [NoEngineCall EXCEPT
                            !.op = "summarize",
                            !.args = [ai_model |-> ai_model, retrieval |-> retrieval,
                                      search_results |-> search_results,
                                      outcome |-> outcome],
                            !.raised = call.raised,
                            !.ret = call.ret]
    /\ UNCHANGED <<storeVars, next_uuid, tombstoned, threadVars, chunkVars>>

NextEngine ==
    \/ GenerateContext
    \/ Summarize

Engine == Init /\ [][NextEngine]_vars

(***************************************************************************)
(* StockMarketRAG.retrieve and index_market_data and the search engine's   *)
(* summarize, step by step, called by threads that share one store.  A     *)
(* thread at "embed_text" or "generate_response" is inside requests.post,  *)
(* which is called without a timeout: it leaves only when the provider     *)
(* answers or the connection fails.  The calls of the store run as a       *)
(* whole; each thread makes one call; every file write completes.  The     *)
(* entries of market_data are taken as the list of texts that are          *)
(* embedded, in order.                                                     *)
(***************************************************************************)
MaxItems == 2

\* the local variables of a call; searched records that the call has entered
\* the store's search
NoPipelineLocals == [op |-> "none", items |-> 0, i |-> 0, top_k |-> 0,
                     embedding |-> <<>>, all_vector_ids |-> <<>>,
                     searched |-> FALSE, raised |-> "", ret |-> <<>>]

\* what the embedding provider can answer: a vector of the store's
\* dimension, a vector of another dimension, or a failure of the request
EmbedReplies == {Unit(dimension), Zero(dimension + 1)}
EmbedFailures == {"HTTPError"}

\* retrieve falling through to the search when embed_text has raised
AfterEmbed_Swallowed(op, failure) ==
    IF op = "index_market_data" THEN "add_vectors" ELSE "search"

\* the statement a call reaches when embed_text is over: the next one, or
\* the except clause that re-raises
AfterEmbed(op, failure) ==
    IF failure # "" THEN "raised"
    ELSE IF op = "index_market_data" THEN "add_vectors"
    ELSE "search"

\* the ids the call of thread u can still draw
Pending(u) ==
    IF loc[u].op = "index_market_data" /\ pc[u] \in {"embed_text", "add_vectors"}
    THEN loc[u].items - loc[u].i + 1
    ELSE 0

RECURSIVE PendingUpTo(_)
PendingUpTo(n) == IF n = 0 THEN 0 ELSE Pending(n) + PendingUpTo(n - 1)

\* a thread calls retrieve or summarize and gets as far as the request of
\* the query's embedding
RetrieveCall(t) ==
    /\ pc[t] = "idle"
    /\ \E op \in {"retrieve", "summarize"}, top_k \in 1..MaxTopK :
        Goto(t, "embed_text", [NoPipelineLocals EXCEPT !.op = op, !.top_k = top_k])
    /\ UNCHANGED <<storeVars, next_uuid, tombstoned, last, chunkVars>>

\* a thread calls index_market_data and gets as far as the request of the
\* first entry's embedding; without entries it returns the empty list
IndexCall(t) ==
    /\ pc[t] = "idle"
    /\ \E n \in 0..MaxItems :
        /\ next_uuid - 1 + PendingUpTo(NumThreads) + n <= MaxIds
        /\ Goto(t, IF n = 0 THEN "return" ELSE "embed_text",
                [NoPipelineLocals EXCEPT !.op = "index_market_data",
                                         !.items = n, !.i = 1])
    /\ UNCHANGED <<storeVars, next_uuid, tombstoned, last, chunkVars>>

\* the embedding provider answers, or the request fails
EmbedResponds(t) ==
    /\ pc[t] = "embed_text"
    /\ \/ \E v \in EmbedReplies :
            Goto(t, AfterEmbed(loc[t].op, ""), [loc[t] EXCEPT !.embedding = v])
       \/ \E failure \in EmbedFailures :
            Goto(t, AfterEmbed(loc[t].op, failure), [loc[t] EXCEPT !.raised = failure])
    /\ UNCHANGED <<storeVars, next_uuid, tombstoned, last, chunkVars>>

\* self.vector_store.search(query_embedding, top_k=top_k), and the return of
\* retrieve; summarize goes on to the request of the answer
RetrieveSearch(t) ==
    /\ pc[t] = "search"
    /\ LET entered == [loc[t] EXCEPT !.searched = TRUE]
       IN  IF Len(loc[t].embedding) # dimension
           THEN Goto(t, "raised", [entered EXCEPT !.raised = "AssertionError"])
           ELSE \E results \in search(loc[t].embedding, loc[t].top_k) :
                  Goto(t, IF loc[t].op = "summarize" THEN "generate_response" ELSE "return",
                       [entered EXCEPT !.ret = results])
    /\ UNCHANGED <<storeVars, next_uuid, tombstoned, last, chunkVars>>

\* the generation provider answers, or the request fails: the provider's
\* own except clause turns the failure into the text of the response
GenerateResponds(t) ==
    /\ pc[t] = "generate_response"
    /\ \E outcome \in RequestOutcomes :
        Goto(t, "return",
             [loc[t] EXCEPT !.ret = generate_response("openai", outcome).response])
    /\ UNCHANGED <<storeVars, next_uuid, tombstoned, last, chunkVars>>

\* vector_ids = self.vector_store.add_vectors([embedding], [metadata]) and
\* all_vector_ids.extend(vector_ids), then the next entry or the return
IndexAdd(t) ==
    /\ pc[t] = "add_vectors"
    /\ LET vectors == <<loc[t].embedding>>
           metas == <<[text |-> "x", timestamp |-> "t0"]>>
           err == AddRaises(vectors, metas)
           vector_ids == NewIds(next_uuid, 1)
           ids == loc[t].all_vector_ids \o vector_ids
       IN  IF err # ""
           THEN /\ Goto(t, "raised", [loc[t] EXCEPT !.raised = err])
                /\ UNCHANGED <<storeVars, next_uuid>>
           ELSE \E now \in Times :
                /\ next_uuid <= MaxIds
                /\ next_uuid' = next_uuid + 1
                /\ index' = index \o vectors
                /\ id_to_index' = AddIdMap(id_to_index, vector_ids, ntotal, 1)
                /\ metadata' = AddMetadata(metadata, vector_ids, metas, now, 1)
                /\ metadata_file' = _save_metadata("ok")
                /\ id_map_file' = _save_id_map("ok")
                /\ IF loc[t].i < loc[t].items
                   THEN Goto(t, "embed_text",
                             [loc[t] EXCEPT !.all_vector_ids = ids, !.i = loc[t].i + 1])
                   ELSE Goto(t, "return",
                             [loc[t] EXCEPT !.all_vector_ids = ids, !.ret = ids])
    /\ UNCHANGED <<tombstoned, last, chunkVars>>

InitPipeline ==
    /\ InitStore \/ Preloaded(Unit(dimension))
    /\ pc = [t \in Threads |-> "idle"]
    /\ loc = [t \in Threads |-> NoPipelineLocals]
    /\ NoChunking

\* the steps of the threads' own code
PipelineStep(t) ==
    \/ RetrieveCall(t)
    \/ RetrieveSearch(t)

\* callers of retrieve and summarize, and a caller of delete_vector
NextRetrieval ==
    \/ \E t \in Threads : RetrieveCall(t)
    \/ \E t \in Threads : EmbedResponds(t)
    \/ \E t \in Threads : RetrieveSearch(t)
    \/ \E t \in Threads : GenerateResponds(t)
    \/ DeleteVector(Reliable)

Retrieval == InitPipeline /\ [][NextRetrieval]_vars

\* the threads' own steps are taken when they can be; nothing makes a
\* provider answer
FairRetrieval == Retrieval /\ \A t \in Threads : WF_vars(PipelineStep(t))

\* callers of index_market_data and of retrieve, and a caller of
\* delete_vector
NextIndexing ==
    \/ \E t \in Threads : IndexCall(t)
    \/ \E t \in Threads : RetrieveCall(t)
    \/ \E t \in Threads : EmbedResponds(t)
    \/ \E t \in Threads : RetrieveSearch(t)
    \/ \E t \in Threads : GenerateResponds(t)
    \/ \E t \in Threads : IndexAdd(t)
    \/ DeleteVector(Reliable)

Indexing == InitPipeline /\ [][NextIndexing]_vars

(***************************************************************************)
(* Claims about the chunker.                                               *)
(***************************************************************************)
\* C9 (chunker termination): with 0 <= overlap < max_size, _chunk_text
\* returns for every text.
C9_Termination ==
    (0 <= chunk_overlap /\ chunk_overlap < chunk_size) => <>(cpc = "done")

\* C10: a 2500-character text with max_size 1000 and overlap 100 yields
\* exactly 3 chunks of at most 1000 characters each.  Chunks are only ever
\* appended, so a call that yields exactly 3 never holds a 4th.
C10_Scenario ==
    (text.len = ScenarioLen /\ chunk_size = ScenarioSize /\ chunk_overlap = ScenarioOverlap)
    => /\ Len(chunks) <= 3
       /\ cpc = "done" => Len(chunks) = 3
       /\ \A i \in DOMAIN chunks : ChunkLen(chunks[i]) <= ScenarioSize

\* C11: a configuration with overlap >= max_size is rejected when the
\* pipeline is constructed, so no call of _chunk_text ever enters its loop
\* or produces a chunk under such a configuration.
C11_ConfigRejected ==
    (cpc # "idle" /\ chunk_overlap >= chunk_size)
    => (cpc \notin {"while", "body"} /\ chunks = <<>>)

(***************************************************************************)
(* Claims about the store.                                                 *)
(***************************************************************************)
LiveIds == Keys(id_to_index)

\* C1 (tombstone exclusion): once delete_vector(id) has returned True on a
\* store, no search on it returns a result carrying id and every get_vector(id)
\* returns None.
C1_TombstoneExclusion ==
    /\ \A id \in tombstoned : get_vector(id) = {}
    /\ (last.op = "get" /\ last.shape = "deleted") => last.ret = {}
    /\ (last.op = "search" /\ last.raised = "") =>
          \A i \in DOMAIN last.ret : last.ret[i].id \notin tombstoned

\* a search that returned a result while a deleted vector was still in the index
C1_Witness ==
    /\ tombstoned # {}
    /\ ntotal > Cardinality(LiveIds)
    /\ last.op = "search"
    /\ last.ret # <<>>

\* C2 (top-k bound): search(q, k) returns at most k results, and exactly as
\* many as there are live entries whenever fewer than k entries are live.
C2_TopKBound ==
    (last.op = "search" /\ last.raised = "") =>
        /\ Len(last.ret) <= last.top_k
        /\ Cardinality(LiveIds) < last.top_k => Len(last.ret) = Cardinality(LiveIds)

\* C3 (dimension invariant): add_vectors with a batch holding a vector of a
\* dimension other than the store's raises and leaves the index, both dicts
\* and both files as they were, also when other vectors of the batch fit.
C3_DimensionInvariant ==
    [][(/\ last'.op = "add"
        /\ last'.shape \in {"all of a wrong dimension", "some of a wrong dimension"})
       => (last'.raised # "" /\ UNCHANGED storeVars)]_vars

\* a mixed batch was refused by a store that holds entries and a snapshot
C3_Witness ==
    /\ last.op = "add"
    /\ last.shape = "some of a wrong dimension"
    /\ last.raised = "ValueError"
    /\ ntotal > 0
    /\ metadata_file.state = "ok"

\* C4 (round trip): get_vector(add_vectors([v], [m])[0]) returns an entry whose
\* vector is v and whose metadata is m.
C4_RoundTrip ==
    (last.op = "add" /\ last.raised = "" /\ Len(last.ret) = 1) =>
        /\ get_vector(last.ret[1]) # {}
        /\ \A e \in get_vector(last.ret[1]) :
              /\ "vector" \in DOMAIN e
              /\ e.vector = last.batch[1][1]
              /\ e.metadata = last.batch[2][1]

\* C5: delete_vector on an id that was never added or is already deleted
\* returns False, raises nothing and leaves the store as it was.
C5_DeleteUnknown ==
    [][(last'.op = "delete" /\ last'.shape \in {"unknown", "deleted"})
       => (last'.ret = FALSE /\ last'.raised = "" /\ UNCHANGED storeVars)]_vars

\* a second delete of the same id, on a store that still holds a live entry
C5_Witness ==
    /\ last.op = "delete"
    /\ last.shape = "deleted"
    /\ last.ret = FALSE
    /\ LiveIds # {}

\* C6: the live ids are the keys of id_to_index and of metadata, every live
\* id maps to a position that exists in the index, and no two live ids map
\* to one position.
C6_IdMapInvariant ==
    /\ LiveIds = DOMAIN metadata
    /\ \A id \in LiveIds : Value(id_to_index, id) \in 0..(ntotal - 1)
    /\ \A a, b \in LiveIds : a # b => Value(id_to_index, a) # Value(id_to_index, b)

\* C7 (atomic visibility of add): a search or get_vector that runs while
\* the other threads are in add_vectors never returns an id with empty
\* metadata, and never an id whose vector is not in the index.
C7_AtomicVisibility ==
    \A t \in Threads :
        (/\ pc[t] = "return"
         /\ loc[t].op \in {"search", "get"}
         /\ \A u \in Threads \ {t} : loc[u].op \in {"add", "none"})
        => LET seen == IF loc[t].op = "get" THEN loc[t].ret ELSE Range(loc[t].ret)
           IN  \A e \in seen :
                 /\ e.metadata # EmptyMeta
                 /\ e.id \in LiveIds => Value(id_to_index, e.id) < ntotal

\* C8 (writers are serialized): when concurrent add_vectors and delete_vector
\* calls have all returned, the state is one that running them one after
\* the other gives: the live ids hold pairwise different positions, every
\* added id maps to the position that holds its own vector, and both files
\* hold the dicts as they are in memory.
C8_WritersSerialized ==
    ((\A t \in Threads : pc[t] = "return" /\ loc[t].op \in {"add", "delete"})
     /\ \E t \in Threads : loc[t].op = "add")
    => /\ \A a, b \in LiveIds :
             a # b => Value(id_to_index, a) # Value(id_to_index, b)
       /\ \A t \in Threads : loc[t].op = "add" =>
             \A i \in DOMAIN loc[t].vector_ids :
                 loc[t].vector_ids[i] \in LiveIds =>
                     index[Value(id_to_index, loc[t].vector_ids[i]) + 1] = loc[t].batch[1][i]
       /\ id_map_file = FileOf(id_to_index)
       /\ metadata_file = FileOf(metadata)

(***************************************************************************)
(* Claims about persistence.                                               *)
(***************************************************************************)
\* C12 (atomic snapshot): when the process is killed during the writes of
\* an add_vectors or delete_vector call, each of the two files is left
\* either as it was or complete; none is left truncated or partial.
C12_AtomicSnapshot ==
    [][last'.shape = "after a crash"
       => /\ metadata_file'.state = "torn" => metadata_file' = metadata_file
          /\ id_map_file'.state = "torn" => id_map_file' = id_map_file]_vars

\* C13: constructing the store on a directory in which a file exists but
\* does not deserialize fails with CorruptSnapshot; no store starts with a
\* map silently replaced by an empty one.
C13_CorruptSnapshot ==
    (last.op = "init" /\ (metadata_file.state = "torn" \/ id_map_file.state = "torn"))
    => last.raised = "CorruptSnapshot"

\* C14: when a write of an add_vectors or delete_vector call fails, the
\* call reports the failure (it raises, or delete_vector returns False) and
\* leaves the index and both dicts as they were before the call.
C14_RollbackOnFailedWrite ==
    [][(/\ \/ last'.op = "add" /\ last'.shape = "well-formed"
           \/ last'.op = "delete" /\ last'.shape = "mapped"
        /\ metadata_file'.state = "torn" \/ id_map_file'.state = "torn")
       => /\ last'.raised # "" \/ (last'.op = "delete" /\ last'.ret = FALSE)
          /\ index' = index
          /\ id_to_index' = id_to_index
          /\ metadata' = metadata]_vars

\* C15 (crash recovery): when a new store is constructed on the directory,
\* every entry that was live with its vector in the index before is still
\* returned by get_vector, and a search with its own vector that asks for
\* as many results as the index held vectors still finds it.
C15_CrashRecovery ==
    [][last'.op = "init"
       => \A id \in LiveIds :
            Value(id_to_index, id) < ntotal
            => \E q \in Vecs, k \in 1..MaxIds :
                 /\ q = index[Value(id_to_index, id) + 1]
                 /\ k = ntotal
                 /\ (get_vector(id) # {})'
                 /\ (\A rs \in search(q, k) : \E i \in DOMAIN rs : rs[i].id = id)']_vars

(***************************************************************************)
(* Claims about search results.                                            *)
(***************************************************************************)
\* C17 (determinism): search results are determined by the live entries,
\* the query and k.  Results at equal distance from the query come in
\* insertion order (ids are drawn in insertion order), and a step that
\* leaves the live entries as they are leaves the result of every search
\* as it is.
C17_Determinism ==
    [][/\ \A q \in Vecs, k \in 1..MaxTopK : \A rs \in search(q, k) :
            \A i, j \in DOMAIN rs :
                (i < j /\ rs[i].score = rs[j].score) => rs[i].id < rs[j].id
       /\ (id_to_index' = id_to_index /\ metadata' = metadata)
          => \A q \in Vecs, k \in 1..MaxTopK : search(q, k)' = search(q, k)]_vars

\* a score is at least another (both are fractions of positive integers)
ScoreGeq(a, b) == a[1] * b[2] >= b[1] * a[2]

\* the store holds exactly the entries A, B and C, all live
ScenarioStore == index = ThreeEntries /\ LiveIds = {1, 2, 3}

C19_ContextOrder ==
    last.op = "generate_context"
    => \A i, j \in DOMAIN last.ret : i < j => last.ret[i].score >= last.ret[j].score

\* C20: when retrieval succeeded and the generation provider failed (its
\* request failed, or its generate_response raised), summarize raises
\* nothing and returns the retrieved context with a response that is a
\* message naming the reason.
C20_DegradedAnswer ==
    (/\ last.op = "summarize"
     /\ last.args.retrieval = "ok"
     /\ \/ last.args.outcome \in Reasons
        \/ generate_response(last.args.ai_model, last.args.outcome).raised # "")
    => /\ last.raised = ""
       /\ last.ret.context = generate_context(last.args.search_results)
       /\ Len(last.ret.response) = 2

(***************************************************************************)
(* Claims about the store's entries and its files.                         *)
(***************************************************************************)
\* C21: add_vectors given lists of different lengths raises before it draws
\* an id, and leaves the index, both dicts and both files as they were.
C21_LengthMismatch ==
    [][(last'.op = "add" /\ last'.shape = "lengths differ")
       => (/\ last'.raised = "ValueError"
           /\ next_uuid' = next_uuid
           /\ UNCHANGED storeVars)]_vars

\* lists of different lengths were refused by a store that holds an entry
\* and a snapshot of it
C21_Witness ==
    /\ last.op = "add"
    /\ last.shape = "lengths differ"
    /\ last.raised = "ValueError"
    /\ ntotal > 0
    /\ id_to_index # <<>>
    /\ id_map_file.state = "ok"

(***************************************************************************)
(* Claims about the pipeline's calls.                                      *)
(***************************************************************************)
\* C22 (bounded response): a retrieve or summarize call that is waiting for
\* the embedding provider or the generation provider ends (it returns or
\* raises), whether or not the provider ever answers.
C22_BoundedResponse ==
    \A t \in Threads :
        (loc[t].op \in {"retrieve", "summarize"} /\ pc[t] \in {"embed_text", "generate_response"})
            ~> (pc[t] \in {"return", "raised"})

\* C23 (lazy deletion): a delete_vector call, whether it returns True or
\* False, leaves the FAISS index as it was: the same number of vectors and
\* the same vector at each position.
C23_LazyDeletion ==
    [][(last'.op = "delete")
       => (/\ Len(index') = Len(index)
           /\ \A p \in DOMAIN index : index'[p] = index[p])]_vars

\* a delete_vector call returned True on a store of two vectors, which are
\* both still in the index
C23_Witness ==
    /\ last.op = "delete"
    /\ last.ret = TRUE
    /\ ntotal = 2
    /\ Len(id_to_index) = 1

\* C24 (entries are immutable): an add_vectors or delete_vector call leaves
\* the metadata and the index position of every id that is mapped before
\* and after it unchanged; add_vectors removes no id and maps only ids that
\* were never used, and delete_vector maps no id and removes at most one.
C24_ImmutableEntries ==
    [][(last'.op \in {"add", "delete"}) =>
        LET before == Keys(id_to_index)
            after == Keys(id_to_index')
        IN  /\ \A id \in before \cap after :
                /\ Value(id_to_index', id) = Value(id_to_index, id)
                /\ (id \in DOMAIN metadata) = (id \in DOMAIN metadata')
                /\ id \in DOMAIN metadata => metadata'[id] = metadata[id]
            /\ last'.op = "add" =>
                /\ before \subseteq after
                /\ \A id \in after \ before : id >= next_uuid /\ id \notin tombstoned
            /\ last'.op = "delete" =>
                /\ after \subseteq before
                /\ Cardinality(before \ after) <= 1
                /\ (DOMAIN metadata \ DOMAIN metadata') \subseteq (before \ after)]_vars

\* an add_vectors call returned on a store that had lost an entry to
\* delete_vector and still maps an id of an earlier call
C24_Witness ==
    /\ last.op = "add"
    /\ last.raised = ""
    /\ tombstoned # {}
    /\ \E id \in Keys(id_to_index) : id \notin Range(last.ret)

\* C25: when an add_vectors call has returned its ids or a delete_vector
\* call has returned True, the metadata file holds exactly the metadata
\* dict and the id map file holds exactly id_to_index.
C25_PersistedEqualsMemory ==
    (/\ last.op \in {"add", "delete"}
     /\ last.raised = ""
     /\ last.op = "delete" => last.ret = TRUE)
        => (/\ metadata_file = FileOf(metadata)
            /\ id_map_file = FileOf(id_to_index))

(***************************************************************************)
(* Claims about the chunks.                                                *)
(***************************************************************************)
\* C26: with 0 <= overlap < max_size, each chunk after the first starts
\* exactly overlap characters before the end of the chunk before it, at an
\* offset that is not negative, and the chunks of a call that has returned
\* cover every character of the text.
C26_OverlapAndCoverage ==
    (0 <= chunk_overlap /\ chunk_overlap < chunk_size) =>
        /\ \A i \in 1..(Len(chunks) - 1) :
              /\ chunks[i][2] - chunk_overlap >= 0
              /\ chunks[i + 1][1] = chunks[i][2] - chunk_overlap
        /\ cpc = "done" =>
              \A c \in 0..(text.len - 1) :
                  \E i \in DOMAIN chunks : chunks[i][1] <= c /\ c < chunks[i][2]

\* C27: with 0 <= overlap < max_size, a chunk that ends before the right
\* edge of its window ends immediately after the last '.' of the window,
\* and that '.' lies more than max_size/2 characters after the chunk's
\* start; and every chunk but the last of the list is longer than
\* max_size/2 and at most max_size characters long.
C27_SentenceCut ==
    (0 <= chunk_overlap /\ chunk_overlap < chunk_size) =>
        /\ \A i \in DOMAIN chunks :
              LET lo == chunks[i][1]
                  hi == chunks[i][2]
                  edge == Min(lo + chunk_size, text.len)
              IN  (lo < hi /\ hi < edge) =>
                      /\ hi - 1 \in text.periods
                      /\ \A p \in text.periods : (lo <= p /\ p < edge) => p <= hi - 1
                      /\ 2 * (hi - 1 - lo) > chunk_size
        /\ \A i \in 1..(Len(chunks) - 1) :
              /\ 2 * ChunkLen(chunks[i]) > chunk_size
              /\ ChunkLen(chunks[i]) <= chunk_size

\* C28: a retrieve call (also the one summarize makes) enters the store's
\* search only with the embedding its embed_text call returned; while it is
\* inside embed_text, or once embed_text has raised, it has not entered the
\* search; and while it is inside embed_text the search another caller of
\* retrieve is about to make and a delete_vector call can be taken.
C28_EmbedBeforeSearch ==
    \A t \in Threads :
        loc[t].op \in {"retrieve", "summarize"} =>
            /\ loc[t].searched =>
                  (loc[t].embedding \in EmbedReplies /\ loc[t].raised \notin EmbedFailures)
            /\ (pc[t] = "embed_text" \/ loc[t].raised \in EmbedFailures) => ~loc[t].searched
            /\ pc[t] = "embed_text" =>
                  /\ ENABLED DeleteVector(Reliable)
                  /\ \A u \in Threads \ {t} : pc[u] = "search" => ENABLED RetrieveSearch(u)

\* one retrieve call is inside embed_text while another caller's retrieve
\* is about to search the store, and a third party's delete_vector has run
C28_Witness ==
    \E t, u \in Threads :
        /\ loc[t].op = "retrieve" /\ pc[t] = "embed_text"
        /\ loc[u].op = "retrieve" /\ pc[u] = "search"
        /\ last.op = "delete"

(***************************************************************************)
(* Claims about the context and about indexing.                            *)
(***************************************************************************)
\* C29: the documents of the context generate_context returns are numbered
\* 1, 2, ..., n in the order in which they are rendered, n being the number
\* of results rendered, also when results without a text were left out.
C29_ConsecutiveLabels ==
    last.op = "generate_context"
    => \A k \in DOMAIN last.ret : last.ret[k].doc = k

\* C30: an index_market_data call that has returned has returned exactly
\* the ids of the entries it added, one for each entry of market_data, and
\* the store maps no id that was added by a call that has raised.
C30_IndexReportsEntries ==
    \A t \in Threads :
        loc[t].op = "index_market_data" =>
            /\ pc[t] = "return" =>
                  /\ loc[t].ret = loc[t].all_vector_ids
                  /\ Len(loc[t].ret) = loc[t].items
                  /\ Range(loc[t].ret) \subseteq (Keys(id_to_index) \cup tombstoned)
            /\ pc[t] = "raised" =>
                  Range(loc[t].all_vector_ids) \cap Keys(id_to_index) = {}

====
